---- MODULE Spec2Model ----
(***************************************************************************)
(* Model of scripts/regen_unicode_width_data.py: the range merger, the two *)
(* property filters with their line parser, the contiguity scan of the     *)
(* emoji pass, and the control flow of main.                               *)
(*                                                                         *)
(* A text is a sequence of lines (what str.splitlines returns) and a line  *)
(* is a sequence of one-character strings.  The characters that occur are  *)
(* hex digits, other letters, ' ', ';', '#' and '.'; int(s, 16) is modelled*)
(* exactly for that alphabet (no sign, underscore or 0x prefix occurs).    *)
(***************************************************************************)
EXTENDS Integers, Sequences, FiniteSets, TLC

VARIABLES
    ranges,      \* merge_ranges: the argument list
    merged,      \* merge_ranges: the returned list
    remerged,    \* merge_ranges applied to its own result
    mpc,         \* position of the merge_ranges caller
    bases,       \* parse_emoji_vs16_bases: the list `bases` at line 70
    collapsed,   \* parse_emoji_vs16_bases: the returned `ranges`
    cpc,         \* position of the scan caller
    pc,          \* main: next statement
    text,        \* main: the text returned by the last fetch
    eaw_ranges,  \* main: local eaw_ranges
    evs_ranges,  \* main: local evs_ranges
    artifact,    \* UnicodeWidthData.swift on disk
    summary,     \* lines printed on stdout
    exc,         \* the exception that ended the run, "none" while running
    done         \* the calls of main that have returned normally

vars == <<ranges, merged, remerged, mpc, bases, collapsed, cpc,
          pc, text, eaw_ranges, evs_ranges, artifact, summary, exc, done>>

mergeVars == <<ranges, merged, remerged, mpc>>
collapseVars == <<bases, collapsed, cpc>>
mainVars == <<pc, text, eaw_ranges, evs_ranges, artifact, summary, exc, done>>

(***************************************************************************)
(* Bounds                                                                  *)
(***************************************************************************)
MaxPoint == 3        \* merge_ranges inputs use code points 0..MaxPoint
MaxRanges == 3       \* longest list handed to merge_ranges
MaxBase == 4         \* scan inputs use code points 0..MaxBase
MaxBases == 3        \* longest list `bases`
MaxEawLines == 2     \* longest East Asian Width text, in lines
MaxEvsLines == 2     \* longest emoji-variation-sequences text, in lines

Max(a, b) == IF a >= b THEN a ELSE b

(***************************************************************************)
(* merge_ranges                                                            *)
(***************************************************************************)
\* Python's tuple order on (lo, hi) pairs.
TupleLess(a, b) == a[1] < b[1] \/ (a[1] = b[1] /\ a[2] < b[2])

RECURSIVE InsertSorted(_, _)
InsertSorted(s, x) ==
    IF s = <<>> THEN <<x>>
    ELSE IF TupleLess(x, Head(s)) THEN <<x>> \o s
    ELSE <<Head(s)>> \o InsertSorted(Tail(s), x)

RECURSIVE SortLoop(_, _)
SortLoop(acc, rest) ==
    IF rest = <<>> THEN acc
    ELSE SortLoop(InsertSorted(acc, Head(rest)), Tail(rest))

\* mutant: the sort is left out
sorted_missing(s) == s

\* sorted(ranges)
sorted(s) == SortLoop(<<>>, s)

\* mutant: adjacency is not merged
Mergeable_overlap_only(lo, curhi) == lo <= curhi

\* the test `lo <= cur[1] + 1`
Mergeable(lo, curhi) == lo <= curhi + 1

\* mutant: the result is emitted half-open
AsTuple_half_open(r) == <<r[1], r[2] + 1>>

\* tuple(r)
AsTuple(r) == <<r[1], r[2]>>

\* the for loop over ranges[1:]
RECURSIVE MergeLoop(_, _)
MergeLoop(acc, rest) ==
    IF rest = <<>> THEN acc
    ELSE LET lo == Head(rest)[1]
             hi == Head(rest)[2]
             n == Len(acc)
             cur == acc[n]
         IN IF Mergeable(lo, cur[2])
            THEN MergeLoop([acc EXCEPT ![n] = <<cur[1], Max(cur[2], hi)>>], Tail(rest))
            ELSE MergeLoop(Append(acc, <<lo, hi>>), Tail(rest))

merge_ranges(rs) ==
    IF rs = <<>> THEN <<>>
    ELSE LET s == sorted(rs)
             m == MergeLoop(<<Head(s)>>, Tail(s))
         IN [i \in 1..Len(m) |-> AsTuple(m[i])]

(***************************************************************************)
(* String operations used by the two parsers                               *)
(***************************************************************************)
Space == " "

RECURSIVE LStrip(_)
LStrip(s) == IF s # <<>> /\ Head(s) = Space THEN LStrip(Tail(s)) ELSE s

RECURSIVE RStrip(_)
RStrip(s) ==
    IF s # <<>> /\ s[Len(s)] = Space THEN RStrip(SubSeq(s, 1, Len(s) - 1)) ELSE s

\* str.strip()
Strip(s) == RStrip(LStrip(s))

\* position of the first c in s, 0 when there is none
FirstIndex(s, c) ==
    LET hits == {i \in 1..Len(s) : s[i] = c}
    IN IF hits = {} THEN 0 ELSE CHOOSE i \in hits : \A j \in hits : i <= j

\* line.split("#", 1)[0].strip()
StripComment(line) ==
    LET i == FirstIndex(line, "#")
    IN Strip(IF i = 0 THEN line ELSE SubSeq(line, 1, i - 1))

\* str.split(c) for a one-character separator
RECURSIVE SplitChar(_, _)
SplitChar(s, c) ==
    LET i == FirstIndex(s, c)
    IN IF i = 0 THEN <<s>>
       ELSE <<SubSeq(s, 1, i - 1)>> \o SplitChar(SubSeq(s, i + 1, Len(s)), c)

\* [x.strip() for x in line.split(";")]
Fields(line) ==
    LET parts == SplitChar(line, ";")
    IN [i \in 1..Len(parts) |-> Strip(parts[i])]

\* position of the first ".." in s, 0 when there is none
FirstDotDot(s) ==
    LET hits == {i \in 1..(Len(s) - 1) : s[i] = "." /\ s[i + 1] = "."}
    IN IF hits = {} THEN 0 ELSE CHOOSE i \in hits : \A j \in hits : i <= j

\* str.split("..")
RECURSIVE SplitDotDot(_)
SplitDotDot(s) ==
    LET i == FirstDotDot(s)
    IN IF i = 0 THEN <<s>>
       ELSE <<SubSeq(s, 1, i - 1)>> \o SplitDotDot(SubSeq(s, i + 2, Len(s)))

\* str.split(): the maximal runs of non-whitespace characters
RECURSIVE SplitWhitespace(_)
SplitWhitespace(s) ==
    LET t == LStrip(s)
        i == FirstIndex(t, Space)
    IN IF t = <<>> THEN <<>>
       ELSE IF i = 0 THEN <<t>>
       ELSE <<SubSeq(t, 1, i - 1)>> \o SplitWhitespace(SubSeq(t, i + 1, Len(t)))

HexUpper == <<"0", "1", "2", "3", "4", "5", "6", "7", "8", "9",
              "A", "B", "C", "D", "E", "F">>
HexLower == <<"0", "1", "2", "3", "4", "5", "6", "7", "8", "9",
              "a", "b", "c", "d", "e", "f">>
HexChars == {HexUpper[i] : i \in 1..16} \cup {HexLower[i] : i \in 1..16}

DigitValue(c) == CHOOSE v \in 0..15 : HexUpper[v + 1] = c \/ HexLower[v + 1] = c

RECURSIVE HexValue(_)
HexValue(t) ==
    IF t = <<>> THEN 0
    ELSE HexValue(SubSeq(t, 1, Len(t) - 1)) * 16 + DigitValue(t[Len(t)])

\* what int(s, 16) yields when it raises ValueError
ValueError == -1

\* int(s, 16): surrounding whitespace is ignored, the rest must be hex digits
HexInt(s) ==
    LET t == Strip(s)
    IN IF t = <<>> \/ \E i \in 1..Len(t) : t[i] \notin HexChars
       THEN ValueError
       ELSE HexValue(t)

(***************************************************************************)
(* parse_east_asian_width                                                  *)
(***************************************************************************)
\* mutant: ambiguous width is taken as wide too
IsWideProp_with_ambiguous(prop) == prop \in {<<"W">>, <<"F">>, <<"A">>}

\* `prop not in ("W", "F")`, negated
IsWideProp(prop) == prop \in {<<"W">>, <<"F">>}

\* What one iteration of the loop does with a line: "skip" (continue),
\* "range" (ranges.append((lo, hi))) or "raise" (ValueError).
EawLine(rawline) ==
    LET line == StripComment(rawline)
        fields == Fields(line)
        skip == [kind |-> "skip", lo |-> 0, hi |-> 0]
        raise == [kind |-> "raise", lo |-> 0, hi |-> 0]
    IN IF line = <<>> THEN skip
       ELSE IF Len(fields) < 2 THEN skip
       ELSE IF ~IsWideProp(fields[2]) THEN skip
       ELSE LET code_range == fields[1]
                parts == IF FirstDotDot(code_range) # 0
                         THEN SplitDotDot(code_range)
                         ELSE <<code_range, code_range>>
            IN IF Len(parts) # 2 THEN raise
               ELSE IF HexInt(parts[1]) = ValueError \/ HexInt(parts[2]) = ValueError
                    THEN raise
               ELSE [kind |-> "range", lo |-> HexInt(parts[1]), hi |-> HexInt(parts[2])]

\* the list `ranges` after the loop, or the exception that left the loop
RECURSIVE EawLoop(_, _)
EawLoop(acc, lines) ==
    IF lines = <<>> THEN [err |-> FALSE, ranges |-> acc]
    ELSE LET r == EawLine(Head(lines))
         IN IF r.kind = "raise" THEN [err |-> TRUE, ranges |-> <<>>]
            ELSE IF r.kind = "range"
                 THEN EawLoop(Append(acc, <<r.lo, r.hi>>), Tail(lines))
            ELSE EawLoop(acc, Tail(lines))

\* as EawLoop, but a line that does not parse is dropped
RECURSIVE EawLoopLenient(_, _)
EawLoopLenient(acc, lines) ==
    IF lines = <<>> THEN [err |-> FALSE, ranges |-> acc]
    ELSE LET r == EawLine(Head(lines))
         IN IF r.kind = "range"
            THEN EawLoopLenient(Append(acc, <<r.lo, r.hi>>), Tail(lines))
            ELSE EawLoopLenient(acc, Tail(lines))

\* mutant: a token that is not hex is skipped instead of raising
parse_east_asian_width_lenient(t) ==
    [err |-> FALSE, ranges |-> merge_ranges(EawLoopLenient(<<>>, t).ranges)]

parse_east_asian_width(t) ==
    LET r == EawLoop(<<>>, t)
    IN IF r.err THEN r ELSE [err |-> FALSE, ranges |-> merge_ranges(r.ranges)]

(***************************************************************************)
(* parse_emoji_vs16_bases                                                  *)
(***************************************************************************)
EmojiStyle == <<"e", "m", "o", "j", "i", " ", "s", "t", "y", "l", "e">>

VS16 == 65039    \* 0xFE0F

\* mutant: any variation selector is accepted
IsVS16_any(vs) == TRUE

\* `vs != 0xFE0F`, negated
IsVS16(vs) == vs = VS16

\* What one iteration of the loop does with a line: "skip" (continue),
\* "base" (bases.append(base)) or "raise" (ValueError).
EvsLine(rawline) ==
    LET line == StripComment(rawline)
        fields == Fields(line)
        skip == [kind |-> "skip", base |-> 0]
        raise == [kind |-> "raise", base |-> 0]
    IN IF line = <<>> THEN skip
       ELSE IF Len(fields) < 2 THEN skip
       ELSE IF fields[2] # EmojiStyle THEN skip
       ELSE LET parts == SplitWhitespace(fields[1])
            IN IF Len(parts) # 2 THEN skip
               ELSE IF HexInt(parts[1]) = ValueError THEN raise
               ELSE IF HexInt(parts[2]) = ValueError THEN raise
               ELSE IF ~IsVS16(HexInt(parts[2])) THEN skip
               ELSE [kind |-> "base", base |-> HexInt(parts[1])]

\* the list `bases` after the first loop, or the exception that left it
RECURSIVE EvsLoop(_, _)
EvsLoop(acc, lines) ==
    IF lines = <<>> THEN [err |-> FALSE, bases |-> acc]
    ELSE LET r == EvsLine(Head(lines))
         IN IF r.kind = "raise" THEN [err |-> TRUE, bases |-> <<>>]
            ELSE IF r.kind = "base" THEN EvsLoop(Append(acc, r.base), Tail(lines))
            ELSE EvsLoop(acc, Tail(lines))

\* sorted(set(bases))
RECURSIVE SortedSet(_)
SortedSet(S) ==
    IF S = {} THEN <<>>
    ELSE LET m == CHOOSE x \in S : \A y \in S : x <= y
         IN <<m>> \o SortedSet(S \ {m})

sorted_set(bs) == SortedSet({bs[i] : i \in 1..Len(bs)})

\* the value None of start and prev
None == -1

\* mutant: a gap of one code point is bridged
Consecutive_gap(b, prev) == b <= prev + 2

\* the test `b == prev + 1`
Consecutive(b, prev) == b = prev + 1

\* mutant: the open run is not flushed
Flush_missing(rs, start, prev) == rs

\* `if start is not None: ranges.append((start, prev))`
Flush(rs, start, prev) == IF start # None THEN Append(rs, <<start, prev>>) ELSE rs

\* the scan `for b in bases` with its locals ranges, start and prev
RECURSIVE ScanLoop(_, _, _, _)
ScanLoop(rs, start, prev, rest) ==
    IF rest = <<>> THEN Flush(rs, start, prev)
    ELSE LET b == Head(rest)
         IN IF start = None THEN ScanLoop(rs, b, b, Tail(rest))
            ELSE IF Consecutive(b, prev) THEN ScanLoop(rs, start, b, Tail(rest))
            ELSE ScanLoop(Append(rs, <<start, prev>>), b, b, Tail(rest))

\* lines 70-84: from the list `bases` to the returned ranges
collapse(bs) == ScanLoop(<<>>, None, None, sorted_set(bs))

parse_emoji_vs16_bases(t) ==
    LET r == EvsLoop(<<>>, t)
    IN IF r.err THEN [err |-> TRUE, ranges |-> <<>>]
       ELSE [err |-> FALSE, ranges |-> collapse(r.bases)]

(***************************************************************************)
(* Inputs                                                                  *)
(***************************************************************************)
SeqsUpTo(S, n) == UNION {[1..k -> S] : k \in 0..n}

\* closed ranges (lo, hi) with lo <= hi
ClosedRanges == {r \in (0..MaxPoint) \X (0..MaxPoint) : r[1] <= r[2]}

\* lines of EastAsianWidth.txt, one tuple of characters per line:
\*   "3;W"
\*   "1..2;F"
\*   "2..4;W"
\*   "4;Na"
\*   "4;A"
\*   "2..1;W"
\*   "G;W"
\*   "G;Na"
\*   " 4 ; W # c"
\*   ""
\*   "5"
\*   "#3;W"
\*   "1..2..3;F"
EawLines == {
    <<"3", ";", "W">>,
    <<"1", ".", ".", "2", ";", "F">>,
    <<"2", ".", ".", "4", ";", "W">>,
    <<"4", ";", "N", "a">>,
    <<"4", ";", "A">>,
    <<"2", ".", ".", "1", ";", "W">>,
    <<"G", ";", "W">>,
    <<"G", ";", "N", "a">>,
    <<" ", "4", " ", ";", " ", "W", " ", "#", " ", "c">>,
    <<>>,
    <<"5">>,
    <<"#", "3", ";", "W">>,
    <<"1", ".", ".", "2", ".", ".", "3", ";", "F">>
}

\* lines of emoji-variation-sequences.txt, one tuple of characters per line:
\*   "23 FE0F;emoji style"
\*   "24 FE0F;text style"
\*   " 24 FE0F ; emoji style # c"
\*   "26 FE0E;emoji style"
\*   "27;emoji style"
\*   "23 fe0f;emoji style"
\*   "G FE0F;emoji style"
\*   "G FE0F;text style"
\*   "28 FE0F 29;emoji style"
\*   ""
\*   "26 FE0F"
\*   "2A G;emoji style"
EvsLines == {
    <<"2", "3", " ", "F", "E", "0", "F", ";", "e", "m", "o", "j", "i", " ", "s", "t", "y", "l", "e">>,
    <<"2", "4", " ", "F", "E", "0", "F", ";", "t", "e", "x", "t", " ", "s", "t", "y", "l", "e">>,
    <<" ", "2", "4", " ", "F", "E", "0", "F", " ", ";", " ", "e", "m", "o", "j", "i", " ", "s", "t", "y", "l", "e", " ", "#", " ", "c">>,
    <<"2", "6", " ", "F", "E", "0", "E", ";", "e", "m", "o", "j", "i", " ", "s", "t", "y", "l", "e">>,
    <<"2", "7", ";", "e", "m", "o", "j", "i", " ", "s", "t", "y", "l", "e">>,
    <<"2", "3", " ", "f", "e", "0", "f", ";", "e", "m", "o", "j", "i", " ", "s", "t", "y", "l", "e">>,
    <<"G", " ", "F", "E", "0", "F", ";", "e", "m", "o", "j", "i", " ", "s", "t", "y", "l", "e">>,
    <<"G", " ", "F", "E", "0", "F", ";", "t", "e", "x", "t", " ", "s", "t", "y", "l", "e">>,
    <<"2", "8", " ", "F", "E", "0", "F", " ", "2", "9", ";", "e", "m", "o", "j", "i", " ", "s", "t", "y", "l", "e">>,
    <<>>,
    <<"2", "6", " ", "F", "E", "0", "F">>,
    <<"2", "A", " ", "G", ";", "e", "m", "o", "j", "i", " ", "s", "t", "y", "l", "e">>
}

EAST_ASIAN_WIDTH_URL == "EastAsianWidth.txt"
EMOJI_VARIATION_SEQUENCES_URL == "emoji-variation-sequences.txt"

\* fetch(url): the decoded response, or an error of urlopen, read or decode
fetch(url) ==
    LET docs == IF url = EAST_ASIAN_WIDTH_URL
                THEN SeqsUpTo(EawLines, MaxEawLines)
                ELSE SeqsUpTo(EvsLines, MaxEvsLines)
    IN {[err |-> TRUE, text |-> <<>>]} \cup {[err |-> FALSE, text |-> d] : d \in docs}

(***************************************************************************)
(* Callers of the pure functions                                           *)
(***************************************************************************)
MergeIdle == ranges = <<>> /\ merged = <<>> /\ remerged = <<>> /\ mpc = "idle"
CollapseIdle == bases = <<>> /\ collapsed = <<>> /\ cpc = "idle"
MainIdle ==
    /\ pc = "idle" /\ text = <<>> /\ eaw_ranges = <<>> /\ evs_ranges = <<>>
    /\ artifact = [state |-> "absent", eastAsianWide |-> <<>>, emojiVs16Base |-> <<>>]
    /\ summary = <<>> /\ exc = "none" /\ done = {}

InitMerge ==
    /\ ranges \in SeqsUpTo(ClosedRanges, MaxRanges)
    /\ merged = <<>> /\ remerged = <<>> /\ mpc = "call"
    /\ CollapseIdle /\ MainIdle

\* merged = merge_ranges(ranges)
CallMerge ==
    /\ mpc = "call"
    /\ merged' = merge_ranges(ranges)
    /\ mpc' = "returned"
    /\ UNCHANGED <<ranges, remerged, collapseVars, mainVars>>

\* remerged = merge_ranges(merged)
CallMergeAgain ==
    /\ mpc = "returned"
    /\ remerged' = merge_ranges(merged)
    /\ mpc' = "remerged"
    /\ UNCHANGED <<ranges, merged, collapseVars, mainVars>>

NextMerge == CallMerge \/ CallMergeAgain

SpecMerge == InitMerge /\ [][NextMerge]_vars

InitCollapse ==
    /\ bases \in SeqsUpTo(0..MaxBase, MaxBases)
    /\ collapsed = <<>> /\ cpc = "call"
    /\ MergeIdle /\ MainIdle

\* lines 70-84 run on the list `bases`
CallCollapse ==
    /\ cpc = "call"
    /\ collapsed' = collapse(bases)
    /\ cpc' = "returned"
    /\ UNCHANGED <<bases, mergeVars, mainVars>>

NextCollapse == CallCollapse

SpecCollapse == InitCollapse /\ [][NextCollapse]_vars

(***************************************************************************)
(* main                                                                    *)
(***************************************************************************)
\* mutant: an exception is caught and the run goes on
Propagate_swallowed(raised, next) == next

\* an exception raised in main is not caught: the run ends there
Propagate(raised, next) == IF raised THEN "error" ELSE next

Init ==
    /\ pc = "fetch_eaw"
    /\ text = <<>> /\ eaw_ranges = <<>> /\ evs_ranges = <<>>
    /\ artifact \in {[state |-> st, eastAsianWide |-> <<>>, emojiVs16Base |-> <<>>] :
                        st \in {"absent", "previous"}}
    /\ summary = <<>> /\ exc = "none" /\ done = {}
    /\ MergeIdle /\ CollapseIdle

\* fetch(EAST_ASIAN_WIDTH_URL)
FetchEaw ==
    /\ pc = "fetch_eaw"
    /\ \E r \in fetch(EAST_ASIAN_WIDTH_URL) :
        /\ pc' = Propagate(r.err, "parse_eaw")
        /\ text' = r.text
        /\ exc' = IF r.err THEN "fetch" ELSE exc
        /\ done' = IF r.err THEN done ELSE done \cup {"fetch_eaw"}
    /\ UNCHANGED <<eaw_ranges, evs_ranges, artifact, summary, mergeVars, collapseVars>>

\* eaw_ranges = parse_east_asian_width(...)
ParseEaw ==
    /\ pc = "parse_eaw"
    /\ LET r == parse_east_asian_width(text)
       IN /\ pc' = Propagate(r.err, "fetch_evs")
          /\ eaw_ranges' = r.ranges
          /\ exc' = IF r.err THEN "parse" ELSE exc
          /\ done' = IF r.err THEN done ELSE done \cup {"parse_eaw"}
    /\ UNCHANGED <<text, evs_ranges, artifact, summary, mergeVars, collapseVars>>

\* fetch(EMOJI_VARIATION_SEQUENCES_URL)
FetchEvs ==
    /\ pc = "fetch_evs"
    /\ \E r \in fetch(EMOJI_VARIATION_SEQUENCES_URL) :
        /\ pc' = Propagate(r.err, "parse_evs")
        /\ text' = IF r.err THEN text ELSE r.text
        /\ exc' = IF r.err THEN "fetch" ELSE exc
        /\ done' = IF r.err THEN done ELSE done \cup {"fetch_evs"}
    /\ UNCHANGED <<eaw_ranges, evs_ranges, artifact, summary, mergeVars, collapseVars>>

\* evs_ranges = parse_emoji_vs16_bases(...)
ParseEvs ==
    /\ pc = "parse_evs"
    /\ LET r == parse_emoji_vs16_bases(text)
       IN /\ pc' = Propagate(r.err, "write")
          /\ evs_ranges' = r.ranges
          /\ exc' = IF r.err THEN "parse" ELSE exc
          /\ done' = IF r.err THEN done ELSE done \cup {"parse_evs"}
    /\ UNCHANGED <<text, eaw_ranges, artifact, summary, mergeVars, collapseVars>>

\* lines 91-107: build the lines and out_path.write_text(...); the write
\* itself may fail and then leaves the old file or a truncated one
WriteOutput ==
    /\ pc = "write"
    /\ \/ /\ artifact' = [state |-> "generated", eastAsianWide |-> eaw_ranges,
                          emojiVs16Base |-> evs_ranges]
          /\ pc' = "print"
          /\ exc' = exc
          /\ done' = done \cup {"write"}
       \/ /\ artifact' \in {artifact, [artifact EXCEPT !.state = "truncated"]}
          /\ pc' = "error"
          /\ exc' = "write"
          /\ done' = done
    /\ UNCHANGED <<text, eaw_ranges, evs_ranges, summary, mergeVars, collapseVars>>

\* print(f"Wrote ... with {len(eaw_ranges)} EAW ranges and {len(evs_ranges)} VS16 ranges")
PrintSummary ==
    /\ pc = "print"
    /\ summary' = Append(summary, <<Len(eaw_ranges), Len(evs_ranges)>>)
    /\ pc' = "done"
    /\ UNCHANGED <<text, eaw_ranges, evs_ranges, artifact, exc, done, mergeVars, collapseVars>>

Next == FetchEaw \/ ParseEaw \/ FetchEvs \/ ParseEvs \/ WriteOutput \/ PrintSummary

Spec == Init /\ [][Next]_vars

(***************************************************************************)
(* Vocabulary of the properties                                            *)
(***************************************************************************)
\* the code points of the closed range r
Points(r) == r[1]..r[2]

\* the code points covered by a list of ranges
Covered(rs) == UNION {Points(rs[i]) : i \in 1..Len(rs)}

AscendingByLo(rs) == \A i \in 1..(Len(rs) - 1) : rs[i][1] < rs[i + 1][1]

PairwiseDisjoint(rs) ==
    \A i, j \in 1..Len(rs) : i # j => Points(rs[i]) \cap Points(rs[j]) = {}

NoAdjacentNeighbours(rs) == \A i \in 1..(Len(rs) - 1) : rs[i][2] + 1 # rs[i + 1][1]

\* the list s rearranged by the permutation p of its indices
Permuted(s, p) == [i \in 1..Len(s) |-> s[p[i]]]

\* a token made of hex digits only
IsHexToken(tok) == tok # <<>> /\ \A i \in 1..Len(tok) : tok[i] \in HexChars

\* the fields of a line that is a record, <<>> for a line that is none
RecordOf(line) ==
    LET f == Fields(StripComment(line))
    IN IF Len(f) >= 2 THEN f ELSE <<>>

\* the sides of a range token: one for a point, two for lo..hi
Sides(tok) == IF FirstDotDot(tok) = 0 THEN <<tok>> ELSE SplitDotDot(tok)

WellFormedRangeToken(tok) ==
    /\ Len(Sides(tok)) <= 2
    /\ \A i \in 1..Len(Sides(tok)) : IsHexToken(Strip(Sides(tok)[i]))

MalformedRangeToken(tok) ==
    \E i \in 1..Len(Sides(tok)) : ~IsHexToken(Strip(Sides(tok)[i]))

\* the code points a well-formed range token names
TokenPoints(tok) ==
    LET sd == Sides(tok)
    IN HexInt(sd[1])..HexInt(sd[Len(sd)])

IsWideRecord(line) ==
    RecordOf(line) # <<>> /\ RecordOf(line)[2] \in {<<"W">>, <<"F">>}

\* parse_east_asian_width has been called on text and has returned or raised
EawActed == "fetch_eaw" \in done /\ "fetch_evs" \notin done /\ pc # "parse_eaw"
EawReturned == EawActed /\ "parse_eaw" \in done
EawRaised == EawActed /\ "parse_eaw" \notin done

\* parse_emoji_vs16_bases has been called on text and has returned or raised
EvsActed == "fetch_evs" \in done /\ pc # "parse_evs"
EvsReturned == EvsActed /\ "parse_evs" \in done
EvsRaised == EvsActed /\ "parse_evs" \notin done

\* the tokens of the first field of an emoji record
SeqTokens(line) == SplitWhitespace(RecordOf(line)[1])

\* an emoji record the filter accepts
IsVS16Record(line) ==
    /\ RecordOf(line) # <<>>
    /\ RecordOf(line)[2] = EmojiStyle
    /\ Len(SeqTokens(line)) = 2
    /\ IsHexToken(SeqTokens(line)[2])
    /\ HexValue(SeqTokens(line)[2]) = VS16

\* an emoji record the filter has to parse and cannot
IsBrokenSequence(line) ==
    /\ RecordOf(line) # <<>>
    /\ RecordOf(line)[2] = EmojiStyle
    /\ Len(SeqTokens(line)) = 2
    /\ \E i \in 1..2 : ~IsHexToken(SeqTokens(line)[i])

L(i) == text[i]

(***************************************************************************)
(* Properties                                                              *)
(***************************************************************************)
\* C1: for every list of closed ranges with lo <= hi, in any order, with
\* duplicates and overlaps, the list merge_ranges returns is strictly
\* ascending by lo, pairwise disjoint, has no two consecutive ranges with
\* prev.hi + 1 = next.lo, and covers exactly the integers the input covers;
\* the empty input gives the empty output.
MergePostcondition ==
    mpc # "call" =>
        /\ AscendingByLo(merged)
        /\ PairwiseDisjoint(merged)
        /\ NoAdjacentNeighbours(merged)
        /\ Covered(merged) = Covered(ranges)
        /\ (ranges = <<>> => merged = <<>>)

\* an unsorted input with a nested duplicate low bound merged into two ranges
MergePostconditionWitness ==
    /\ mpc = "returned"
    /\ ranges = <<<<2, 3>>, <<0, 0>>, <<2, 2>>>>
    /\ merged = <<<<0, 0>>, <<2, 3>>>>

\* C2: merge_ranges is idempotent: merging its own result returns that
\* result unchanged.
MergeIdempotent == mpc = "remerged" => remerged = merged

\* a result of two ranges, one of them grown out of adjacent inputs, merged again
MergeIdempotentWitness ==
    /\ mpc = "remerged"
    /\ Len(ranges) = 3 /\ Len(merged) = 2
    /\ \E i \in 1..2 : merged[i] \notin {ranges[k] : k \in 1..3}
    /\ remerged = merged

\* C3: merge_ranges is order-invariant: every permutation of the input list
\* gives the same result, also when several ranges share the same lo.
MergeOrderInvariant ==
    mpc # "call" =>
        \A p \in Permutations(1..Len(ranges)) :
            merge_ranges(Permuted(ranges, p)) = merged

\* an input out of order in which two different ranges share their lo
MergeOrderInvariantWitness ==
    /\ mpc = "returned"
    /\ Len(ranges) = 3
    /\ ranges[1][1] > ranges[3][1]
    /\ ranges[1][1] = ranges[2][1] /\ ranges[1][2] > ranges[2][2]
    /\ Len(merged) = 2

\* C4: for every set S of code points the scan returns, in ascending order,
\* exactly the maximal runs of consecutive integers of S: expanding the
\* ranges gives S back, the last open run is flushed, and the empty set
\* gives the empty list.
CollapseMaximalRuns ==
    cpc = "returned" =>
        LET S == {bases[i] : i \in 1..Len(bases)}
        IN /\ \A i \in 1..(Len(collapsed) - 1) : collapsed[i][2] < collapsed[i + 1][1]
           /\ \A i \in 1..Len(collapsed) :
                /\ collapsed[i][1] <= collapsed[i][2]
                /\ Points(collapsed[i]) \subseteq S
                /\ collapsed[i][1] - 1 \notin S
                /\ collapsed[i][2] + 1 \notin S
           /\ Covered(collapsed) = S
           /\ (S = {} => collapsed = <<>>)

\* three distinct points out of order: a run of two and a single point
CollapseMaximalRunsWitness ==
    /\ cpc = "returned"
    /\ Cardinality({bases[i] : i \in 1..Len(bases)}) = 3
    /\ bases[1] > bases[2]
    /\ Len(collapsed) = 2
    /\ collapsed[1][1] < collapsed[1][2]
    /\ collapsed[2][1] = collapsed[2][2]

\* C5: a record of the East Asian Width text contributes its range if and
\* only if its second field is exactly W or F: when all records are well
\* formed the pass returns, and whenever it returns the code points it covers
\* are exactly those of the W and F records, so that a code point named only
\* by records of another property value is not covered.
EawFilter ==
    /\ (EawActed /\ \A i \in 1..Len(text) :
                       RecordOf(L(i)) # <<>> => WellFormedRangeToken(RecordOf(L(i))[1]))
            => EawReturned
    /\ EawReturned =>
            Covered(eaw_ranges) =
                UNION {TokenPoints(RecordOf(L(i))[1]) :
                          i \in {k \in 1..Len(text) : IsWideRecord(L(k))}}

\* an Ambiguous record for 4 next to a Wide record for 3: only 3 is covered
EawFilterWitness ==
    /\ EawReturned
    /\ text = <<<<"4", ";", "A">>, <<"3", ";", "W">>>>
    /\ eaw_ranges = <<<<3, 3>>>>

\* C6: a record of the emoji text contributes its base if and only if its
\* style is exactly "emoji style", its first field has exactly two tokens and
\* the second token parses to 0xFE0F; a sequence ending in 0xFE0E and a first
\* field with another token count are skipped without an error, and a base
\* that occurs twice is counted once.
EvsFilter ==
    /\ (EvsActed /\ \A i \in 1..Len(text) : ~IsBrokenSequence(L(i))) => EvsReturned
    /\ EvsReturned =>
        /\ Covered(evs_ranges) =
                {HexInt(SeqTokens(L(i))[1]) :
                    i \in {k \in 1..Len(text) : IsVS16Record(L(k))}}
        /\ \A i \in 1..Len(evs_ranges) : evs_ranges[i][1] <= evs_ranges[i][2]
        /\ \A i \in 1..(Len(evs_ranges) - 1) : evs_ranges[i][2] < evs_ranges[i + 1][1]

\* a VS15 sequence labelled emoji style before a VS16 one: one base, no error
EvsFilterWitness ==
    /\ EvsReturned
    /\ Len(text) = 2
    /\ RecordOf(L(1)) = <<<<"2", "6", " ", "F", "E", "0", "E">>, EmojiStyle>>
    /\ IsVS16Record(L(2))
    /\ evs_ranges = <<<<35, 35>>>>

\* C7: the artifact is written and the summary printed only after both
\* fetches and both parses have returned; when a fetch or a parse raises the
\* run ends in the error state and the artifact is neither created nor
\* modified, and nothing is printed.
FailFast ==
    /\ (artifact.state \notin {"absent", "previous"} \/ summary # <<>>) =>
            {"fetch_eaw", "parse_eaw", "fetch_evs", "parse_evs"} \subseteq done
    /\ exc \in {"fetch", "parse"} =>
            /\ pc = "error"
            /\ artifact.state \in {"absent", "previous"}
            /\ artifact.eastAsianWide = <<>> /\ artifact.emojiVs16Base = <<>>
            /\ summary = <<>>

\* the second parse raises after the first pass produced ranges: the file
\* that was there is still there
FailFastWitness ==
    /\ pc = "error" /\ exc = "parse"
    /\ "parse_eaw" \in done /\ eaw_ranges # <<>>
    /\ artifact.state = "previous"

\* C8 as stated: any record of the East Asian Width text, whatever its
\* property value, whose range token does not parse as hex makes the pass
\* raise and return no ranges.
MalformedHexAlwaysFatal ==
    (EawActed /\ \E i \in 1..Len(text) :
                    RecordOf(L(i)) # <<>> /\ MalformedRangeToken(RecordOf(L(i))[1]))
        => (EawRaised /\ pc = "error" /\ eaw_ranges = <<>>)

\* C8 amended: a record whose property value is W or F and whose range token
\* does not parse as hex makes the pass raise: the run ends in the error
\* state, no ranges are returned and the artifact is untouched.
MalformedHexFatalWhenWide ==
    (EawActed /\ \E i \in 1..Len(text) :
                    IsWideRecord(L(i)) /\ MalformedRangeToken(RecordOf(L(i))[1]))
        => /\ EawRaised /\ pc = "error" /\ exc = "parse"
           /\ eaw_ranges = <<>>
           /\ artifact.state \in {"absent", "previous"}

\* a good Wide record followed by a Wide record that is not hex
MalformedHexFatalWhenWideWitness ==
    /\ EawRaised
    /\ text = <<<<"3", ";", "W">>, <<"G", ";", "W">>>>
    /\ pc = "error" /\ eaw_ranges = <<>>

\* C9: every range parse_east_asian_width returns has lo <= hi, and the list
\* is ascending by lo, pairwise disjoint and without adjacent neighbours.
EawOutputInvariant ==
    EawReturned =>
        /\ \A i \in 1..Len(eaw_ranges) : eaw_ranges[i][1] <= eaw_ranges[i][2]
        /\ AscendingByLo(eaw_ranges)
        /\ PairwiseDisjoint(eaw_ranges)
        /\ NoAdjacentNeighbours(eaw_ranges)

\* C10: the scan of parse_emoji_vs16_bases gives the same list, in content
\* and order, as merge_ranges on the singleton ranges (s, s) of its input.
CollapseIsMergeOfSingletons ==
    cpc = "returned" =>
        collapsed = merge_ranges([i \in 1..Len(bases) |-> <<bases[i], bases[i]>>])

\* points out of order with a gap of one between two of them
CollapseIsMergeOfSingletonsWitness ==
    /\ cpc = "returned"
    /\ Len(bases) = 3
    /\ bases[1] = bases[2] + 2
    /\ bases[3] = bases[1] + 1
    /\ Len(collapsed) = 2

====
